---- MODULE Spec2Model ----
(***************************************************************************)
(* The views of the library catalog (catalog/views.py) as a state machine. *)
(* The state is the stored Book, Author and BookInstance records, the      *)
(* sessions' num_visits values, the current date, and the last request     *)
(* together with the response it was given.  One action per view.          *)
(***************************************************************************)
EXTENDS Integers, Sequences, FiniteSets, TLC

\* ------------------------------------------------------------------ bounds
NumInst == 2        \* BookInstance rows of the loan specifications
MaxPk == 3          \* Book / Author primary keys of the catalog specification
MaxDate == 2        \* due dates the initial tables draw from: 1..MaxDate
MaxDay == 1         \* the current date ranges over 0..MaxDay
MaxVisits == 3      \* index requests per session
MaxRows == 21       \* rows per table of the pagination specification
MaxPage == 3        \* page numbers requested: 0..MaxPage

\* ------------------------------------------------------- program constants
paginate_by == 10   \* ListView.paginate_by of the four list views
RenewalWeeks == 3   \* datetime.timedelta(weeks=3)

\* --------------------------------------------------------------- the domain
Users == {"alice", "bob"}
Anon == "AnonymousUser"
NoUser == "None"                         \* BookInstance.borrower unset
Perms == {"catalog.can_mark_returned", "catalog.can_edit_authors"}
Sessions == {"s1", "s2"}
Titles == {"The Hobbit", "Dune"}
Genres == {"Fantasy", "Science Fiction"}
Names == {"Tolkien", "Herbert"}
Statuses == {"a", "o"}

\* Dates are day numbers.
\* An optional value (a nullable field, a session key, a form field) is the
\* empty set or a singleton.
None == {}
Some(x) == {x}
Val(o) == CHOOSE x \in o : TRUE

VARIABLES
    books,        \* Book table: pk -> [title, genre]
    authors,      \* Author table: pk -> [name]
    instances,    \* BookInstance table: pk -> [status, borrower, due_back]
    nullsFirst,   \* whether the database sorts a NULL due_back before dates
    session,      \* session store: session key -> optional num_visits
    visits,       \* history: index requests made so far in each session
    today,        \* datetime.date.today(), a day number
    next_pk,      \* the pk the database gives the next Book / Author row
    resp          \* the last request and its response

vars == <<books, authors, instances, nullsFirst, session, visits, today,
          next_pk, resp>>

\* ------------------------------------------------------ requests, responses
NoBody == [kind |-> "none"]

Request(view, user, perms, method, pk, page, data, sid) ==
    [view |-> view, user |-> user, perms |-> perms, method |-> method,
     pk |-> pk, page |-> page, data |-> data, session |-> sid]

Response(req, status, location, body) ==
    [req |-> req, status |-> status, location |-> location, body |-> body]

NoRequest == Request("", Anon, {}, "", 0, 0, None, "")

\* A requester is the anonymous user, who holds no permission, or a user with
\* the permissions the user holds when the request is made.
is_authenticated(user) == user # Anon

has_perm(user, perms, perm) == is_authenticated(user) /\ perm \in perms

\* ------------------------------------------------- access control (mixins)
\* LoginRequiredMixin.dispatch: "pass", or the redirect to the login page.
LoginRequiredMixin(user) ==
    IF is_authenticated(user) THEN "pass" ELSE "login"

\* PermissionRequiredMixin.dispatch (raise_exception unset): a requester
\* without the permission is refused with 403 when authenticated and is sent
\* to the login page otherwise.
PermissionRequiredMixin_login_only(user, perms, perm) ==
    IF is_authenticated(user) THEN "pass" ELSE "login"

PermissionRequiredMixin(user, perms, perm) ==
    IF has_perm(user, perms, perm) THEN "pass"
    ELSE IF is_authenticated(user) THEN "forbidden"
    ELSE "login"

login_required_only(user, perms, perm) ==
    IF is_authenticated(user) THEN "pass" ELSE "login"

\* @login_required over @permission_required(perm, raise_exception=True):
\* the login check runs first, then the permission check raises 403.
login_required_permission_required(user, perms, perm) ==
    IF ~is_authenticated(user) THEN "login"
    ELSE IF ~has_perm(user, perms, perm) THEN "forbidden"
    ELSE "pass"

Denied(req, gate) ==
    IF gate = "login" THEN Response(req, 302, "login", NoBody)
    ELSE Response(req, 403, "", NoBody)

\* ----------------------------------------------------------------- queries
\* due_back order of the database: dates ascending, NULL first or last.
DueLeq(a, b) ==
    IF a = None THEN (b = None \/ nullsFirst)
    ELSE IF b = None THEN ~nullsFirst
    ELSE Val(a) <= Val(b)

\* Rows with equal due_back come in storage order; pks number the rows in
\* storage order.
RowLeq(p, q) ==
    LET a == instances[p].due_back
        b == instances[q].due_back
    IN  IF a = b THEN p <= q ELSE DueLeq(a, b)

RECURSIVE order_by_due_back(_)
order_by_due_back(S) ==
    IF S = {} THEN <<>>
    ELSE LET m == CHOOSE p \in S : \A q \in S : RowLeq(p, q)
         IN  <<m>> \o order_by_due_back(S \ {m})

\* Model.objects.all() of a table without order_by: storage (pk) order.
RECURSIVE objects_all(_)
objects_all(S) ==
    IF S = {} THEN <<>>
    ELSE LET m == CHOOSE p \in S : \A q \in S : p <= q
         IN  <<m>> \o objects_all(S \ {m})

filter_borrower(S, user) == {p \in S : instances[p].borrower = user}

filter_status(S, st) == {p \in S : instances[p].status = st}

\* BookInstance.objects.filter(borrower=user).filter(status__exact='o')
\*     .order_by('due_back')
LoanedBooksByUser_any_borrower(user) ==
    order_by_due_back(filter_status(DOMAIN instances, "o"))

LoanedBooksByUser_get_queryset(user) ==
    order_by_due_back(filter_status(filter_borrower(DOMAIN instances, user), "o"))

\* BookInstance.objects.filter(status__exact='o').order_by('due_back')
LoanedBooks_unordered ==
    objects_all(filter_status(DOMAIN instances, "o"))

LoanedBooks_get_queryset ==
    order_by_due_back(filter_status(DOMAIN instances, "o"))

BookList_get_queryset == objects_all(DOMAIN books)

AuthorList_get_queryset == objects_all(DOMAIN authors)

\* -------------------------------------------------------------- pagination
\* Paginator(object_list, paginate_by): the number of pages (one, empty, for
\* an empty list) and the slice of page `number`.
num_pages(list) ==
    IF Len(list) = 0 THEN 1
    ELSE (Len(list) + paginate_by - 1) \div paginate_by

valid_page(list, number) == number >= 1 /\ number <= num_pages(list)

Min(a, b) == IF a <= b THEN a ELSE b

page_object_list(list, number) ==
    SubSeq(list, (number - 1) * paginate_by + 1,
           Min(number * paginate_by, Len(list)))

\* MultipleObjectMixin.paginate_queryset within BaseListView.get: an invalid
\* page number is answered 404, a valid one with that page of the queryset.
paginate_queryset(req, list) ==
    IF valid_page(list, req.page)
    THEN Response(req, 200, "",
                  [kind |-> "list", list |-> page_object_list(list, req.page),
                   num_pages |-> num_pages(list)])
    ELSE Response(req, 404, "", NoBody)

\* ------------------------------------------------------------- the home page
\* title__icontains='the' and genre__name__icontains='fantasy' on the titles
\* and genre names of the model.
title_icontains_the(title) == title \in {"The Hobbit"}

genre_name_icontains_fantasy(genre) == genre \in {"Fantasy"}

\* request.session.get('num_visits', 0)
session_get_num_visits_default_one(sid) ==
    IF session[sid] = None THEN 1 ELSE Val(session[sid])

session_get_num_visits(sid) ==
    IF session[sid] = None THEN 0 ELSE Val(session[sid])

index_context(num_visits) ==
    [kind |-> "index",
     num_books |-> Cardinality(DOMAIN books),
     num_instances |-> Cardinality(DOMAIN instances),
     num_instances_available |->
         Cardinality({p \in DOMAIN instances : instances[p].status = "a"}),
     num_authors |-> Cardinality(DOMAIN authors),
     num_genres_with_fantasy |->
         Cardinality({p \in DOMAIN books :
                         genre_name_icontains_fantasy(books[p].genre)}),
     num_books_with_the |->
         Cardinality({p \in DOMAIN books : title_icontains_the(books[p].title)}),
     num_visits |-> num_visits]

index(user, perms, sid) ==
    LET req == Request("index", user, perms, "GET", 0, 0, None, sid)
        num_visits == session_get_num_visits(sid)
    IN  /\ visits[sid] < MaxVisits
        /\ session' = [session EXCEPT ![sid] = Some(num_visits + 1)]
        /\ visits' = [visits EXCEPT ![sid] = @ + 1]
        /\ resp' = Response(req, 200, "", index_context(num_visits))
        /\ UNCHANGED <<books, authors, instances, nullsFirst, today, next_pk>>

\* ------------------------------------------------------------- detail views
\* DetailView: get_object answers 404 for a pk without row.
DetailView(req, table) ==
    IF req.pk \in DOMAIN table
    THEN Response(req, 200, "", [kind |-> "detail", object |-> table[req.pk]])
    ELSE Response(req, 404, "", NoBody)

BookDetailView(user, perms, pk) ==
    LET req == Request("book-detail", user, perms, "GET", pk, 0, None, "")
    IN  /\ resp' = DetailView(req, books)
        /\ UNCHANGED <<books, authors, instances, nullsFirst, session, visits, today, next_pk>>

AuthorDetailView(user, perms, pk) ==
    LET req == Request("author-detail", user, perms, "GET", pk, 0, None, "")
    IN  /\ resp' = DetailView(req, authors)
        /\ UNCHANGED <<books, authors, instances, nullsFirst, session, visits, today, next_pk>>

\* --------------------------------------------------------------- list views
BookListView_unpaginated(user, perms, page) ==
    LET req == Request("books", user, perms, "GET", 0, page, None, "")
    IN  /\ resp' = Response(req, 200, "",
                            [kind |-> "list", list |-> BookList_get_queryset,
                             num_pages |-> 1])
        /\ UNCHANGED <<books, authors, instances, nullsFirst, session, visits, today, next_pk>>

BookListView(user, perms, page) ==
    LET req == Request("books", user, perms, "GET", 0, page, None, "")
    IN  /\ resp' = paginate_queryset(req, BookList_get_queryset)
        /\ UNCHANGED <<books, authors, instances, nullsFirst, session, visits, today, next_pk>>

AuthorListView(user, perms, page) ==
    LET req == Request("authors", user, perms, "GET", 0, page, None, "")
    IN  /\ resp' = paginate_queryset(req, AuthorList_get_queryset)
        /\ UNCHANGED <<books, authors, instances, nullsFirst, session, visits, today, next_pk>>

LoanedBooksByUserListView(user, perms, page) ==
    LET req == Request("my-borrowed", user, perms, "GET", 0, page, None, "")
        gate == LoginRequiredMixin(user)
    IN  /\ resp' = IF gate = "pass"
                   THEN paginate_queryset(req, LoanedBooksByUser_get_queryset(user))
                   ELSE Denied(req, gate)
        /\ UNCHANGED <<books, authors, instances, nullsFirst, session, visits, today, next_pk>>

LoanedBooksListView(user, perms, page) ==
    LET req == Request("all-borrowed", user, perms, "GET", 0, page, None, "")
        gate == PermissionRequiredMixin(user, perms, "catalog.can_mark_returned")
    IN  /\ resp' = IF gate = "pass"
                   THEN paginate_queryset(req, LoanedBooks_get_queryset)
                   ELSE Denied(req, gate)
        /\ UNCHANGED <<books, authors, instances, nullsFirst, session, visits, today, next_pk>>

\* ------------------------------------------------------------ renewal view
Methods == {"GET", "POST", "PUT"}

\* RenewBookModelForm(request.POST): a form bound to the submitted due_back
\* field, None when the field is missing or no date.  What the form accepts is
\* its own business: is_valid is the verdict it gives on a well-formed date.
RenewBookModelForm(due_back, verdict) ==
    [due_back |-> due_back, is_valid |-> due_back # None /\ verdict]

cleaned_data(form) == Val(form.due_back)

\* datetime.date.today() + datetime.timedelta(weeks=3)
proposed_renewal_date == today + 7 * RenewalWeeks

render_book_renew(req, initial) ==
    Response(req, 200, "",
             [kind |-> "form", initial |-> initial, book_instance |-> req.pk])

\* The POST branch: the table and the response after it.
renew_post_saves_unvalidated(req) ==
    IF req.data.due_back # None
    THEN [instances |-> [instances EXCEPT
                            ![req.pk].due_back = Some(cleaned_data(req.data))],
          resp |-> Response(req, 302, "all-borrowed", NoBody)]
    ELSE [instances |-> instances, resp |-> render_book_renew(req, None)]

renew_post_marks_returned(req) ==
    IF req.data.is_valid
    THEN [instances |-> [instances EXCEPT
                            ![req.pk].due_back = Some(cleaned_data(req.data)),
                            ![req.pk].status = "a"],
          resp |-> Response(req, 302, "all-borrowed", NoBody)]
    ELSE [instances |-> instances, resp |-> render_book_renew(req, None)]

renew_post(req) ==
    IF req.data.is_valid
    THEN [instances |-> [instances EXCEPT
                            ![req.pk].due_back = Some(cleaned_data(req.data))],
          resp |-> Response(req, 302, "all-borrowed", NoBody)]
    ELSE [instances |-> instances, resp |-> render_book_renew(req, None)]

\* The GET (or any other method) branch: the default form.
renew_get(req) ==
    [instances |-> instances,
     resp |-> render_book_renew(req, Some(proposed_renewal_date))]

renew_book_librarian(user, perms, method, pk, form) ==
    LET req == Request("renew-book-librarian", user, perms, method, pk, 0,
                       IF method = "POST" THEN form ELSE None, "")
        gate == login_required_permission_required(
                    user, perms, "catalog.can_mark_returned")
        out == IF gate # "pass"
               THEN [instances |-> instances, resp |-> Denied(req, gate)]
               ELSE IF pk \notin DOMAIN instances      \* get_object_or_404
               THEN [instances |-> instances,
                     resp |-> Response(req, 404, "", NoBody)]
               ELSE IF method = "POST" THEN renew_post(req)
               ELSE renew_get(req)
    IN  /\ instances' = out.instances
        /\ resp' = out.resp
        /\ UNCHANGED <<books, authors, nullsFirst, session, visits, today, next_pk>>

\* The date changes between requests.
Tick ==
    /\ today < MaxDay
    /\ today' = today + 1
    /\ UNCHANGED <<books, authors, instances, nullsFirst, session, visits, next_pk, resp>>

\* ------------------------------------------------- Author and Book editing
\* A table without row pk, and with row pk set to rec.
without(table, pk) == [p \in DOMAIN table \ {pk} |-> table[p]]

with(table, pk, rec) ==
    [p \in DOMAIN table \cup {pk} |-> IF p = pk THEN rec ELSE table[p]]

render_form(req) == Response(req, 200, "", [kind |-> "form"])

\* ModelFormMixin: a submitted form is None when it does not validate and
\* holds the record to save when it does.
\* CreateView.  GET renders the empty form; a valid POST saves a new row under
\* a fresh pk and redirects to it; an invalid POST re-renders the form.
CreateView(req, table, newpk, detail) ==
    IF req.method = "POST" /\ req.data # None
    THEN [table |-> with(table, newpk, Val(req.data)),
          resp |-> Response(req, 302, detail, NoBody)]
    ELSE [table |-> table, resp |-> render_form(req)]

\* UpdateView.  get_object answers 404 for a pk without row.
UpdateView(req, table, detail) ==
    IF req.pk \notin DOMAIN table
    THEN [table |-> table, resp |-> Response(req, 404, "", NoBody)]
    ELSE IF req.method = "POST" /\ req.data # None
    THEN [table |-> with(table, req.pk, Val(req.data)),
          resp |-> Response(req, 302, detail, NoBody)]
    ELSE [table |-> table, resp |-> render_form(req)]

\* DeleteView.  GET renders the confirmation page; POST and DELETE delete the
\* row and redirect to success_url.
DeleteView(req, table, success_url) ==
    IF req.pk \notin DOMAIN table
    THEN [table |-> table, resp |-> Response(req, 404, "", NoBody)]
    ELSE IF req.method \in {"POST", "DELETE"}
    THEN [table |-> without(table, req.pk),
          resp |-> Response(req, 302, success_url, NoBody)]
    ELSE [table |-> table,
          resp |-> Response(req, 200, "", [kind |-> "confirm_delete"])]

Refused(req, table, gate) == [table |-> table, resp |-> Denied(req, gate)]

\* A request that passes the gate with a valid POST saves a row.
Saves(gate, method, form) == gate = "pass" /\ method = "POST" /\ form # None

\* The database numbers new rows from a sequence: a pk is handed out once,
\* also after its row was deleted.
sequence_after(name, saves) ==
    IF saves THEN [next_pk EXCEPT ![name] = @ + 1] ELSE next_pk

AuthorCreate(user, perms, method, form) ==
    LET req == Request("author-create", user, perms, method, 0, 0, form, "")
        gate == PermissionRequiredMixin(user, perms, "catalog.can_edit_authors")
        saves == Saves(gate, method, form)
        out == IF gate # "pass" THEN Refused(req, authors, gate)
               ELSE CreateView(req, authors, next_pk.authors, "author-detail")
    IN  /\ saves => next_pk.authors <= MaxPk
        /\ authors' = out.table
        /\ next_pk' = sequence_after("authors", saves)
        /\ resp' = out.resp
        /\ UNCHANGED <<books, instances, nullsFirst, session, visits, today>>

AuthorUpdate(user, perms, method, pk, form) ==
    LET req == Request("author-update", user, perms, method, pk, 0, form, "")
        gate == PermissionRequiredMixin(user, perms, "catalog.can_edit_authors")
        out == IF gate # "pass" THEN Refused(req, authors, gate)
               ELSE UpdateView(req, authors, "author-detail")
    IN  /\ authors' = out.table
        /\ resp' = out.resp
        /\ UNCHANGED <<books, instances, nullsFirst, session, visits, today, next_pk>>

AuthorDelete(user, perms, method, pk) ==
    LET req == Request("author-delete", user, perms, method, pk, 0, None, "")
        gate == PermissionRequiredMixin(user, perms, "catalog.can_edit_authors")
        out == IF gate # "pass" THEN Refused(req, authors, gate)
               ELSE DeleteView(req, authors, "authors")
    IN  /\ authors' = out.table
        /\ resp' = out.resp
        /\ UNCHANGED <<books, instances, nullsFirst, session, visits, today, next_pk>>

\* The Book views declare no permission: every request is served.
BookCreate(user, perms, method, form) ==
    LET req == Request("book-create", user, perms, method, 0, 0, form, "")
        saves == Saves("pass", method, form)
        out == CreateView(req, books, next_pk.books, "book-detail")
    IN  /\ saves => next_pk.books <= MaxPk
        /\ books' = out.table
        /\ next_pk' = sequence_after("books", saves)
        /\ resp' = out.resp
        /\ UNCHANGED <<authors, instances, nullsFirst, session, visits, today>>

BookUpdate(user, perms, method, pk, form) ==
    LET req == Request("book-update", user, perms, method, pk, 0, form, "")
        out == UpdateView(req, books, "book-detail")
    IN  /\ books' = out.table
        /\ resp' = out.resp
        /\ UNCHANGED <<authors, instances, nullsFirst, session, visits, today, next_pk>>

\* BookDelete declares model = Author: the row it looks up and deletes is the
\* Author with the pk.
BookDelete(user, perms, method, pk) ==
    LET req == Request("book-delete", user, perms, method, pk, 0, None, "")
        out == DeleteView(req, authors, "books")
    IN  /\ authors' = out.table
        /\ resp' = out.resp
        /\ UNCHANGED <<books, instances, nullsFirst, session, visits, today, next_pk>>

\* ---------------------------------------------------------- initial tables
OptDates == {None} \cup {Some(d) : d \in 1..MaxDate}

InstanceRecords ==
    [status : Statuses, borrower : Users \cup {NoUser}, due_back : OptDates]

BookRecords == [title : Titles, genre : Genres]

AuthorRecords == [name : Names]

NoSession == [s \in Sessions |-> None]

NoVisits == [s \in Sessions |-> 0]

Book1 == [title |-> "The Hobbit", genre |-> "Fantasy"]

Book2 == [title |-> "Dune", genre |-> "Science Fiction"]

Author1 == [name |-> "Tolkien"]

Instance1 == [status |-> "o", borrower |-> "alice", due_back |-> Some(1)]

\* ------------------------------------------- editing the catalog: Spec
Init ==
    /\ books = (1 :> Book1)
    /\ authors = (1 :> Author1)
    /\ instances = (1 :> Instance1)
    /\ nullsFirst = TRUE
    /\ session = NoSession
    /\ visits = NoVisits
    /\ today = 0
    /\ next_pk = [books |-> 2, authors |-> 2]
    /\ resp = Response(NoRequest, 0, "", NoBody)

\* Submitted forms: one that does not validate, or a record.
AuthorForms == {None} \cup {Some(a) : a \in AuthorRecords}

BookForms == {None, Some(Book2)}

CatalogRequesters == {<<Anon, {}>>} \cup ({"alice"} \X SUBSET Perms)

EditMethods == {"GET", "POST"}

DeleteMethods == {"GET", "POST", "DELETE"}

Pks == 1..(MaxPk + 1)

Next ==
    \E r \in CatalogRequesters :
        \/ AuthorCreate(r[1], r[2], "GET", None)
        \/ \E form \in AuthorForms : AuthorCreate(r[1], r[2], "POST", form)
        \/ \E pk \in Pks : AuthorUpdate(r[1], r[2], "GET", pk, None)
        \/ \E pk \in Pks, form \in AuthorForms :
              AuthorUpdate(r[1], r[2], "POST", pk, form)
        \/ \E pk \in Pks, method \in DeleteMethods :
              AuthorDelete(r[1], r[2], method, pk)
        \/ BookCreate(r[1], r[2], "GET", None)
        \/ \E form \in BookForms : BookCreate(r[1], r[2], "POST", form)
        \/ \E pk \in Pks : BookUpdate(r[1], r[2], "GET", pk, None)
        \/ \E pk \in Pks, form \in BookForms :
              BookUpdate(r[1], r[2], "POST", pk, form)
        \/ \E pk \in Pks, method \in DeleteMethods :
              BookDelete(r[1], r[2], method, pk)

Spec == Init /\ [][Next]_vars

EditViews == {"author-create", "author-update", "author-delete",
              "book-create", "book-update", "book-delete"}

\* The requester is unauthenticated or holds no permission at all, and so
\* lacks whichever permission gates the view.
Unprivileged(req) == ~is_authenticated(req.user) \/ req.perms = {}

\* C1: every create, update and delete view of Author and of Book is gated by
\* a permission: a request by a requester who is unauthenticated or lacks the
\* permission creates, updates and deletes nothing, and leaves the stored Book
\* and Author records unchanged.
C1_EditViewsGated ==
    [][(resp'.req.view \in EditViews /\ today' = today /\ Unprivileged(resp'.req))
       => (books' = books /\ authors' = authors)]_vars

\* C9: a confirmed delete through BookDelete with key pk removes the Book with
\* that pk and nothing else: no BookDelete request changes the Author records,
\* and every other Book record is unchanged.
C9_BookDeleteRemovesBook ==
    [][(resp'.req.view = "book-delete" /\ today' = today)
       => /\ authors' = authors
          /\ \A p \in DOMAIN books \ {resp'.req.pk} :
                p \in DOMAIN books' /\ books'[p] = books[p]
          /\ (resp'.req.method \in {"POST", "DELETE"} /\ resp'.status = 302)
                => resp'.req.pk \notin DOMAIN books']_vars

\* ------------------------------------------------- the loan lists: SpecLoans
InitLoans ==
    /\ instances \in [1..NumInst -> InstanceRecords]
    /\ nullsFirst \in BOOLEAN
    /\ books = (1 :> Book1)
    /\ authors = (1 :> Author1)
    /\ session = NoSession
    /\ visits = NoVisits
    /\ today = 0
    /\ next_pk = [books |-> 2, authors |-> 2]
    /\ resp = Response(NoRequest, 0, "", NoBody)

\* Requesters of the loan views: only catalog.can_mark_returned matters there.
LoanRequesters ==
    {<<Anon, {}>>} \cup (Users \X {{}, {"catalog.can_mark_returned"}})

NextLoans ==
    \E r \in LoanRequesters, page \in 1..2 :
        \/ LoanedBooksByUserListView(r[1], r[2], page)
        \/ LoanedBooksListView(r[1], r[2], page)

SpecLoans == InitLoans /\ [][NextLoans]_vars

Range(list) == {list[i] : i \in 1..Len(list)}

NoDuplicates(list) == \A i, j \in 1..Len(list) : list[i] = list[j] => i = j

\* A list of BookInstance pks is in non-decreasing due_back order: dates never
\* decrease along the list, and the rows without a date stand together at the
\* end at which the database sorts NULL.
NonDecreasingDue(list) ==
    \A i, j \in 1..Len(list) :
        i < j =>
            LET a == instances[list[i]].due_back
                b == instances[list[j]].due_back
            IN  /\ (a # None /\ b # None) => Val(a) <= Val(b)
                /\ nullsFirst => (b = None => a = None)
                /\ ~nullsFirst => (a = None => b = None)

ListServed(view) ==
    resp.req.view = view /\ resp.status = 200 /\ resp.body.kind = "list"

\* C2: every BookInstance that LoanedBooksByUserListView.get_queryset returns
\* for an authenticated user u has borrower u, never another user and never
\* an unset borrower; so has every instance on the page the view serves.
C2_ByUserOnlyOwn ==
    /\ \A u \in Users :
          \A p \in Range(LoanedBooksByUser_get_queryset(u)) :
              instances[p].borrower = u
    /\ ListServed("my-borrowed") =>
          \A p \in Range(resp.body.list) : instances[p].borrower = resp.req.user

\* The view served a user a non-empty list while a loaned instance of someone
\* else (or of nobody) was stored.
C2_Witness ==
    /\ ListServed("my-borrowed")
    /\ resp.body.list # <<>>
    /\ \E p \in DOMAIN instances :
          instances[p].status = "o" /\ instances[p].borrower # resp.req.user

\* C3: LoanedBooksListView.get_queryset is exactly the instances of status 'o',
\* each once, in non-decreasing due_back order, and
\* LoanedBooksByUserListView.get_queryset is that list restricted to the
\* requesting user's instances; the pages served hold such instances in order.
C3_LoanedExactAndOrdered ==
    /\ Range(LoanedBooks_get_queryset) =
          {p \in DOMAIN instances : instances[p].status = "o"}
    /\ NoDuplicates(LoanedBooks_get_queryset)
    /\ NonDecreasingDue(LoanedBooks_get_queryset)
    /\ \A u \in Users :
          LET Mine(p) == instances[p].borrower = u
          IN  LoanedBooksByUser_get_queryset(u) =
                  SelectSeq(LoanedBooks_get_queryset, Mine)
    /\ (ListServed("all-borrowed") \/ ListServed("my-borrowed")) =>
          /\ \A p \in Range(resp.body.list) : instances[p].status = "o"
          /\ NonDecreasingDue(resp.body.list)

\* The all-borrowed list was served with two instances whose due_back order is
\* the reverse of their storage order.
C3_Witness ==
    /\ ListServed("all-borrowed")
    /\ Len(resp.body.list) >= 2
    /\ resp.body.list[1] > resp.body.list[2]
    /\ instances[resp.body.list[1]].due_back # instances[resp.body.list[2]].due_back

LacksMarkReturned(req) ==
    ~has_perm(req.user, req.perms, "catalog.can_mark_returned")

RedirectedToLogin ==
    resp.status = 302 /\ resp.location = "login" /\ resp.body = NoBody

Forbidden == resp.status = 403 /\ resp.body = NoBody

\* C4 as stated: an unauthenticated request to the my-borrowed view is
\* redirected to login, and any request to the all-borrowed view by a user
\* without catalog.can_mark_returned is answered 403, both without a list.
C4_Original ==
    /\ (resp.req.view = "my-borrowed" /\ ~is_authenticated(resp.req.user))
          => RedirectedToLogin
    /\ (resp.req.view = "all-borrowed" /\ LacksMarkReturned(resp.req))
          => Forbidden

\* C4 amended: an unauthenticated request to either view is redirected to
\* login; a request to the all-borrowed view by an authenticated user without
\* catalog.can_mark_returned is answered 403; none of them is given a list.
C4_DeniedWithoutList ==
    /\ (resp.req.view = "my-borrowed" /\ ~is_authenticated(resp.req.user))
          => RedirectedToLogin
    /\ (resp.req.view = "all-borrowed" /\ LacksMarkReturned(resp.req))
          => IF is_authenticated(resp.req.user) THEN Forbidden
             ELSE RedirectedToLogin

\* An authenticated user without the permission asked for the all-borrowed
\* list while loaned instances were stored.
C4_Witness ==
    /\ resp.req.view = "all-borrowed"
    /\ is_authenticated(resp.req.user)
    /\ LacksMarkReturned(resp.req)
    /\ resp.status = 403
    /\ LoanedBooks_get_queryset # <<>>

\* ------------------------------------------------------ renewal: SpecRenew
\* Copies on loan, the rows the renewal view is used on.
LoanedRecords ==
    [status : {"o"}, borrower : {"alice"}, due_back : OptDates]

\* The dates a librarian submits: a past date, the proposed date, or no date.
SubmittedDates == {None, Some(today - 1), Some(proposed_renewal_date)}

InitRenew ==
    /\ instances \in [1..NumInst -> LoanedRecords]
    /\ nullsFirst = TRUE
    /\ books = (1 :> Book1)
    /\ authors = (1 :> Author1)
    /\ session = NoSession
    /\ visits = NoVisits
    /\ today = 0
    /\ next_pk = [books |-> 2, authors |-> 2]
    /\ resp = Response(NoRequest, 0, "", NoBody)

NoForm == RenewBookModelForm(None, FALSE)

\* Requesters of the renewal view: who asks does not matter beyond the gate.
RenewRequesters ==
    {<<Anon, {}>>, <<"bob", {}>>, <<"bob", {"catalog.can_mark_returned"}>>}

NextRenew ==
    \/ \E r \in RenewRequesters, pk \in 1..(NumInst + 1) :
          \/ \E method \in Methods \ {"POST"} :
                renew_book_librarian(r[1], r[2], method, pk, NoForm)
          \/ \E d \in SubmittedDates, v \in BOOLEAN :
                renew_book_librarian(r[1], r[2], "POST", pk,
                                     RenewBookModelForm(d, v))
    \/ Tick

SpecRenew == InitRenew /\ [][NextRenew]_vars

RenewRequest(r) == r.req.view = "renew-book-librarian"

\* A step that handles a request to the view (the date moves between requests,
\* not within one).
RenewStep == RenewRequest(resp') /\ today' = today

RenewAuthorized(r) ==
    has_perm(r.req.user, r.req.perms, "catalog.can_mark_returned")

\* C5: an authorized POST to renew_book_librarian on an existing pk whose date
\* the form rejects leaves the stored due_back unchanged and re-renders the
\* form; one whose date the form accepts stores the submitted date as the
\* instance's due_back and redirects to the all-borrowed list.
C5_RenewPost ==
    [][(/\ RenewStep
        /\ resp'.req.method = "POST"
        /\ RenewAuthorized(resp')
        /\ resp'.req.pk \in DOMAIN instances)
       => IF resp'.req.data.is_valid
          THEN /\ instances'[resp'.req.pk].due_back = resp'.req.data.due_back
               /\ resp'.status = 302
               /\ resp'.location = "all-borrowed"
          ELSE /\ instances'[resp'.req.pk].due_back
                      = instances[resp'.req.pk].due_back
               /\ resp'.status = 200
               /\ resp'.body.kind = "form"]_vars

\* An accepted renewal was stored: the instance now holds the submitted date,
\* which is the proposed date of a later day than the first.
C5_Witness ==
    /\ RenewRequest(resp)
    /\ resp.req.method = "POST"
    /\ resp.status = 302
    /\ resp.req.data.is_valid
    /\ instances[resp.req.pk].due_back = resp.req.data.due_back
    /\ \E p \in DOMAIN instances :
          instances[p].due_back # resp.req.data.due_back

\* C6: renew_book_librarian redirects an unauthenticated requester to login,
\* answers 403 to an authenticated requester without
\* catalog.can_mark_returned, and answers 404 to a requester with the
\* permission when no BookInstance has the pk; none of the three modifies a
\* BookInstance, and a requester who is not authorized never receives 404.
C6_RenewRefusals ==
    [][RenewStep
       => /\ ~is_authenticated(resp'.req.user)
                => (resp'.status = 302 /\ resp'.location = "login"
                    /\ instances' = instances)
          /\ (is_authenticated(resp'.req.user) /\ ~RenewAuthorized(resp'))
                => (resp'.status = 403 /\ instances' = instances)
          /\ (RenewAuthorized(resp') /\ resp'.req.pk \notin DOMAIN instances)
                => (resp'.status = 404 /\ instances' = instances)
          /\ ~RenewAuthorized(resp') => resp'.status # 404]_vars

\* A requester with the permission asked for a pk that no BookInstance has.
C6_Witness ==
    /\ RenewRequest(resp)
    /\ RenewAuthorized(resp)
    /\ resp.req.pk \notin DOMAIN instances
    /\ resp.status = 404

\* C10: a request to renew_book_librarian for pk changes at most the due_back
\* of the BookInstance pk: its status and borrower, every other BookInstance,
\* and the Book and Author records stay as they are; a request that is no POST
\* changes no record and proposes today + 21 days as the initial due_back.
C10_RenewFrame ==
    [][RenewStep
       => /\ DOMAIN instances' = DOMAIN instances
          /\ \A p \in DOMAIN instances :
                /\ p # resp'.req.pk => instances'[p] = instances[p]
                /\ instances'[p].status = instances[p].status
                /\ instances'[p].borrower = instances[p].borrower
          /\ books' = books /\ authors' = authors
          /\ resp'.req.method # "POST"
                => /\ instances' = instances
                   /\ resp'.status = 200
                         => resp'.body.initial = Some(today' + 21)]_vars

\* The default form was rendered on a day after the first, proposing that
\* day plus 21.
C10_Witness ==
    /\ RenewRequest(resp)
    /\ resp.req.method = "GET"
    /\ resp.status = 200
    /\ today > 0
    /\ resp.body.initial = Some(today + 21)

\* -------------------------------------------------- sessions: SpecSession
SessionRequesters == {<<Anon, {}>>, <<"alice", {}>>}

NextSession ==
    \E r \in SessionRequesters :
        \/ \E sid \in Sessions : index(r[1], r[2], sid)
        \/ BookListView(r[1], r[2], 1)
        \/ AuthorListView(r[1], r[2], 1)
        \/ \E pk \in Pks : BookDetailView(r[1], r[2], pk)
        \/ \E pk \in Pks : AuthorDetailView(r[1], r[2], pk)
        \/ LoanedBooksByUserListView(r[1], r[2], 1)
        \/ LoanedBooksListView(r[1], r[2], 1)
        \/ \E pk \in Pks : renew_book_librarian(r[1], r[2], "GET", pk, NoForm)
        \/ AuthorCreate(r[1], r[2], "POST", Some(Author1))
        \/ \E pk \in Pks : AuthorUpdate(r[1], r[2], "POST", pk, Some(Author1))
        \/ \E pk \in Pks : AuthorDelete(r[1], r[2], "POST", pk)
        \/ BookCreate(r[1], r[2], "POST", Some(Book2))
        \/ \E pk \in Pks : BookUpdate(r[1], r[2], "POST", pk, Some(Book2))
        \/ \E pk \in Pks : BookDelete(r[1], r[2], "DELETE", pk)

SpecSession == Init /\ [][NextSession]_vars

\* C7: within a session the stored num_visits is the number of index requests
\* made so far in that session (no value is stored before the first), the
\* k-th index request renders num_visits = k - 1, and a request to another
\* view or an index request of another session leaves the session's value
\* unchanged.
C7_VisitCounter ==
    /\ [](/\ \A s \in Sessions :
                session[s] = IF visits[s] = 0 THEN None ELSE Some(visits[s])
          /\ resp.req.view = "index" =>
                resp.body.num_visits = visits[resp.req.session] - 1)
    /\ [][\A s \in Sessions :
            (resp'.req.view # "index" \/ resp'.req.session # s)
                => session'[s] = session[s]]_vars

\* The second index request of one session was rendered after an index
\* request of the other session.
C7_Witness ==
    /\ resp.req.view = "index"
    /\ resp.body.num_visits = 1
    /\ \E s \in Sessions \ {resp.req.session} : session[s] = Some(1)

\* ------------------------------------------------- pagination: SpecPages
BookRow(p) ==
    [title |-> IF p % 2 = 0 THEN "The Hobbit" ELSE "Dune",
     genre |-> IF p % 3 = 0 THEN "Fantasy" ELSE "Science Fiction"]

AuthorRow(p) == [name |-> IF p % 2 = 0 THEN "Tolkien" ELSE "Herbert"]

\* All on loan to alice but the first two rows, with due dates out of storage
\* order and every fifth row without one.
InstanceRow(p) ==
    [status |-> IF p = 1 THEN "a" ELSE "o",
     borrower |-> IF p = 2 THEN "bob" ELSE "alice",
     due_back |-> IF p % 5 = 0 THEN None ELSE Some((p * 3) % 7)]

InitPages ==
    /\ \E n \in 0..MaxRows :
          /\ next_pk = [books |-> n + 1, authors |-> n + 1]
          /\ books = [p \in 1..n |-> BookRow(p)]
          /\ authors = [p \in 1..n |-> AuthorRow(p)]
          /\ instances = [p \in 1..n |-> InstanceRow(p)]
    /\ nullsFirst \in BOOLEAN
    /\ session = NoSession
    /\ visits = NoVisits
    /\ today = 0
    /\ resp = Response(NoRequest, 0, "", NoBody)

NextPages ==
    \E page \in 0..MaxPage :
        \/ BookListView("alice", Perms, page)
        \/ AuthorListView("alice", Perms, page)
        \/ LoanedBooksByUserListView("alice", Perms, page)
        \/ LoanedBooksListView("alice", Perms, page)

SpecPages == InitPages /\ [][NextPages]_vars

RECURSIVE pages_in_order(_, _)
pages_in_order(list, n) ==
    IF n = 0 THEN <<>>
    ELSE pages_in_order(list, n - 1) \o page_object_list(list, n)

Querysets ==
    {BookList_get_queryset, AuthorList_get_queryset, LoanedBooks_get_queryset}
        \cup {LoanedBooksByUser_get_queryset(u) : u \in Users}

\* C8: every page a list view returns holds at most 10 items, and the pages of
\* a view's queryset taken in order hold each of its items exactly once.
C8_Pagination ==
    /\ \A view \in {"books", "authors", "my-borrowed", "all-borrowed"} :
          ListServed(view) => Len(resp.body.list) <= 10
    /\ \A qs \in Querysets :
          /\ \A n \in 1..num_pages(qs) : Len(page_object_list(qs, n)) <= 10
          /\ pages_in_order(qs, num_pages(qs)) = qs
          /\ NoDuplicates(qs)

\* A list view served the last page of a queryset of three pages.
C8_Witness ==
    /\ ListServed("books")
    /\ resp.req.page = 3
    /\ resp.body.num_pages = 3
    /\ Len(resp.body.list) >= 1
    /\ Len(BookList_get_queryset) > 20

====
